---------------------------- MODULE Spec2Model ----------------------------
(***************************************************************************)
(* Model of the PII detection-and-masking pipeline of the email            *)
(* classification service (src/utils.py, src/main.py).                     *)
(*                                                                         *)
(* Texts are sequences of one-character strings.  Entity candidates are    *)
(* records with the keys of the Python dictionaries (entity_type, start,   *)
(* end, score and, inside mask_pii, entity).  Confidence scores are kept   *)
(* as integer percentages (0.9 is 90): the code only compares them.        *)
(***************************************************************************)
EXTENDS Integers, Sequences, FiniteSets, TLC

VARIABLES
    pc,                \* position in the function being executed
    input_email_body,  \* API: the request's input_email_body
    text,              \* the text argument of the function being executed
    cleaned_text,      \* mask_pii: cleaned_text; API: cleaned_email_body
    entities,          \* the candidate list (sorted in place by the resolver)
    resolved_entities, \* the resolver's accumulator
    idx,               \* number of loop iterations done
    cvv_entities,      \* detect_cvv_from_context: cvv_entities
    masked_entities,   \* mask_pii: masked_entities
    given_entities     \* history: the list post_process_dates was called with

textVars == <<input_email_body, text, cleaned_text>>
resolverVars == <<entities, resolved_entities, idx>>

vars == <<pc, textVars, resolverVars, cvv_entities, masked_entities,
          given_entities>>

----------------------------------------------------------------------------
(* Bounds of the resolver's input space. *)
MaxPos == 4
MaxCands == 3
Scores == {70, 90}

Min(a, b) == IF a < b THEN a ELSE b
Max(a, b) == IF a > b THEN a ELSE b

\* the least element of a set of integers, 0 for the empty set
LeastOf(S) == IF S = {} THEN 0 ELSE CHOOSE j \in S : \A k \in S : j <= k

----------------------------------------------------------------------------
(* resolve_overlapping_entities *)

\* list.sort(key=start) is stable: e goes behind every element whose start
\* is not larger.
RECURSIVE InsertByStart(_, _)
InsertByStart(e, s) ==
    IF s = <<>> THEN <<e>>
    ELSE IF s[Len(s)]["start"] <= e["start"] THEN Append(s, e)
    ELSE Append(InsertByStart(e, SubSeq(s, 1, Len(s) - 1)), s[Len(s)])

RECURSIVE SortFrom(_, _, _)
SortFrom(s, i, acc) ==
    IF i > Len(s) THEN acc ELSE SortFrom(s, i + 1, InsertByStart(s[i], acc))

\* the list left in its given order
NoSort(s) == s

SortByStart(s) == SortFrom(s, 1, <<>>)

\* the comparison made against last's start
OverlapsByStart(current, last) == current["start"] < last["start"]

\* "if current["start"] < last["end"]"
Overlaps(current, last) == current["start"] < last["end"]

\* an equal score already replaces
ShouldReplaceOnTie(current, last) ==
    current["score"] >= last["score"]

\* the condition under which current replaces last
ShouldReplace(current, last) ==
    LET current_length == current["end"] - current["start"]
        last_length == last["end"] - last["start"]
    IN  \/ current["score"] > last["score"]
        \/ /\ current["score"] = last["score"]
           /\ current_length > last_length

\* one iteration of "for current in entities" on accumulator res
ResolveOne(res, current) ==
    IF res = <<>> THEN <<current>>
    ELSE LET last == res[Len(res)]
         IN  IF Overlaps(current, last)
             THEN IF ShouldReplace(current, last)
                  THEN [res EXCEPT ![Len(res)] = current]
                  ELSE res
             ELSE Append(res, current)

\* "if not entities: return entities", else sort in place and start the loop
ResolveBegin ==
    /\ pc = "resolve"
    /\ IF entities = <<>>
       THEN /\ pc' = "resolved"
            /\ resolved_entities' = entities
            /\ UNCHANGED entities
       ELSE /\ pc' = "resolve_loop"
            /\ entities' = SortByStart(entities)
            /\ resolved_entities' = <<>>
    /\ idx' = 0
    /\ UNCHANGED <<textVars, cvv_entities, masked_entities, given_entities>>

ResolveStep ==
    /\ pc = "resolve_loop"
    /\ idx < Len(entities)
    /\ resolved_entities' = ResolveOne(resolved_entities, entities[idx + 1])
    /\ idx' = idx + 1
    /\ UNCHANGED <<pc, textVars, entities, cvv_entities, masked_entities, given_entities>>

ResolveReturn ==
    /\ pc = "resolve_loop"
    /\ idx = Len(entities)
    /\ pc' = "resolved"
    /\ UNCHANGED <<textVars, resolverVars, cvv_entities, masked_entities, given_entities>>

----------------------------------------------------------------------------
(* Specification of the resolver on its own: every list of at most MaxCands *)
(* candidates with spans inside 0..MaxPos.                                  *)

ValidSpan(e) == 0 <= e["start"] /\ e["start"] < e["end"]

Candidates ==
    { [entity_type |-> "PERSON", start |-> s, end |-> e, score |-> sc] :
        s \in 0..MaxPos, e \in 0..MaxPos, sc \in Scores }

ValidCandidates == { c \in Candidates : ValidSpan(c) }

SeqsUpTo(S, n) == UNION { [1..k -> S] : k \in 0..n }

Init ==
    /\ pc = "resolve"
    /\ entities \in SeqsUpTo(ValidCandidates, MaxCands)
    /\ resolved_entities = <<>>
    /\ idx = 0
    /\ input_email_body = <<>>
    /\ text = <<>>
    /\ cleaned_text = <<>>
    /\ cvv_entities = <<>>
    /\ masked_entities = <<>>
    /\ given_entities = <<>>

Next == ResolveBegin \/ ResolveStep \/ ResolveReturn

Spec == Init /\ [][Next]_vars

----------------------------------------------------------------------------
(* The resolver as a function of its argument (the loop run to its end). *)

RECURSIVE ResolveFrom(_, _, _)
ResolveFrom(ents, i, res) ==
    IF i > Len(ents) THEN res
    ELSE ResolveFrom(ents, i + 1, ResolveOne(res, ents[i]))

Resolve(ents) ==
    IF ents = <<>> THEN ents ELSE ResolveFrom(SortByStart(ents), 1, <<>>)

\* two half-open spans share a character position
SpansOverlap(a, b) == a["start"] < b["end"] /\ b["start"] < a["end"]

InResolver == pc \in {"resolve_loop", "resolved"}

----------------------------------------------------------------------------
(* Properties of the resolver *)

\* C1: after every step of the accumulation loop, and at the end, the
\* accumulated list is sorted ascending by start and every adjacent pair
\* (a, b) satisfies a.end <= b.start.
C1_SortedNonOverlapping ==
    InResolver =>
        \A i \in 1..(Len(resolved_entities) - 1) :
            /\ resolved_entities[i]["start"] <= resolved_entities[i + 1]["start"]
            /\ resolved_entities[i]["end"] <= resolved_entities[i + 1]["start"]

\* an overlap was settled and the loop went on to accumulate a second entity
C1_Witness ==
    /\ pc = "resolved"
    /\ Len(entities) = 3
    /\ Len(resolved_entities) = 2
    /\ \E i \in 1..2 : SpansOverlap(entities[i], entities[i + 1])

\* C7: a candidate that overlaps the last accumulated entity replaces it
\* exactly when its score is strictly higher, or equal with a strictly longer
\* span, and is dropped otherwise; two overlapping candidates A, B with
\* A.start <= B.start and A.score > B.score resolve to exactly <<A>>.
C7_StepRule ==
    (/\ pc = "resolve_loop"
     /\ idx < Len(entities)
     /\ resolved_entities # <<>>
     /\ entities[idx + 1]["start"]
            < resolved_entities[Len(resolved_entities)]["end"])
    => LET cur == entities[idx + 1]
           n == Len(resolved_entities)
           last == resolved_entities[n]
           wins == \/ cur["score"] > last["score"]
                   \/ /\ cur["score"] = last["score"]
                      /\ cur["end"] - cur["start"] > last["end"] - last["start"]
       IN  /\ Len(resolved_entities') = n
           /\ \A k \in 1..(n - 1) : resolved_entities'[k] = resolved_entities[k]
           /\ resolved_entities'[n] = (IF wins THEN cur ELSE last)

C7_PairRule ==
    (pc = "resolved" /\ Len(entities) = 2) =>
        \A i, j \in 1..2 :
            LET A == entities[i]
                B == entities[j]
            IN  (/\ i # j
                 /\ A["start"] <= B["start"]
                 /\ B["start"] < A["end"]
                 /\ A["score"] > B["score"])
                => resolved_entities = <<A>>

C7_TieBreak == [][C7_StepRule]_vars /\ [](C7_PairRule)

\* an overlapping candidate with an equal score and a longer span has just
\* replaced the last accumulated entity
C7_Witness ==
    /\ pc = "resolve_loop"
    /\ idx = 2
    /\ entities[2]["start"] < entities[1]["end"]
    /\ entities[2]["score"] = entities[1]["score"]
    /\ entities[2]["end"] - entities[2]["start"]
           > entities[1]["end"] - entities[1]["start"]
    /\ resolved_entities = <<entities[2]>>

\* C8 (as stated): some three-candidate input resolves to an output that
\* keeps a candidate overlapping an earlier, non-adjacent entity of the
\* same output.
C8_NonAdjacentOverlapExists ==
    pc = "resolve" =>
        \E ents \in [1..3 -> ValidCandidates] :
            LET out == Resolve(ents)
            IN  \E i, j \in 1..Len(out) :
                    i + 1 < j /\ SpansOverlap(out[i], out[j])

\* C8 (amended): no two entities of the resolved output overlap, adjacent
\* or not, also when a discarded middle candidate leaves a gap.
C8_NoOverlapAnyPair ==
    pc = "resolved" =>
        \A i, j \in 1..Len(resolved_entities) :
            i < j => ~SpansOverlap(resolved_entities[i], resolved_entities[j])

\* a three-way overlap whose middle candidate was discarded, both
\* neighbours kept
C8_Witness ==
    /\ pc = "resolved"
    /\ Len(entities) = 3
    /\ SpansOverlap(entities[1], entities[2])
    /\ SpansOverlap(entities[2], entities[3])
    /\ resolved_entities = <<entities[1], entities[3]>>

\* C10: every candidate the resolver was given overlaps at least one entity
\* of the resolved output (a kept candidate overlaps itself), so no detected
\* candidate is left entirely unmasked.
C10_EveryCandidateCovered ==
    pc = "resolved" =>
        \A i \in 1..Len(entities) :
            \E j \in 1..Len(resolved_entities) :
                SpansOverlap(entities[i], resolved_entities[j])

----------------------------------------------------------------------------
(* clean_text *)

\* characters the model treats as matched by \s
IsSpace(c) == c \in {" ", "\t", "\n"}

\* index of the first ">" after position i, 0 when there is none
RECURSIVE FirstGt(_, _)
FirstGt(s, i) ==
    IF i >= Len(s) THEN 0
    ELSE IF s[i + 1] = ">" THEN i + 1
    ELSE FirstGt(s, i + 1)

\* re.sub(r"<[^>]+>", "", text): leftmost non-overlapping matches; a match
\* at "<" runs to the first ">" behind it and holds at least one character
\* between the two.
RECURSIVE RemoveTagsFrom(_, _)
RemoveTagsFrom(s, i) ==
    IF i > Len(s) THEN <<>>
    ELSE LET j == FirstGt(s, i)
         IN  IF s[i] = "<" /\ j > i + 1
             THEN RemoveTagsFrom(s, j + 1)
             ELSE <<s[i]>> \o RemoveTagsFrom(s, i + 1)

RemoveTags(s) == RemoveTagsFrom(s, 1)

\* re.sub(r"\s+", " ", text): every maximal run of whitespace becomes " "
RECURSIVE CollapseFrom(_, _)
CollapseFrom(s, i) ==
    IF i > Len(s) THEN <<>>
    ELSE IF IsSpace(s[i])
         THEN IF i > 1 /\ IsSpace(s[i - 1])
              THEN CollapseFrom(s, i + 1)
              ELSE <<" ">> \o CollapseFrom(s, i + 1)
         ELSE <<s[i]>> \o CollapseFrom(s, i + 1)

CollapseWhitespace(s) == CollapseFrom(s, 1)

\* str.strip()
RECURSIVE Strip(_)
Strip(s) ==
    IF s = <<>> THEN s
    ELSE IF IsSpace(s[1]) THEN Strip(Tail(s))
    ELSE IF IsSpace(s[Len(s)]) THEN Strip(SubSeq(s, 1, Len(s) - 1))
    ELSE s

\* the two substitutions in the opposite order
clean_text_ws_first(s) == RemoveTags(Strip(CollapseWhitespace(s)))

clean_text(s) == Strip(CollapseWhitespace(RemoveTags(s)))

\* email_processing_api: cleaned_email_body = clean_text(input_email_body),
\* then mask_pii(cleaned_email_body)
ApiClean ==
    /\ pc = "api"
    /\ text' = clean_text(input_email_body)
    /\ pc' = "mask_pii"
    /\ UNCHANGED <<input_email_body, cleaned_text, resolverVars,
                   cvv_entities, masked_entities, given_entities>>

\* mask_pii: cleaned_text = clean_text(text)
MaskClean ==
    /\ pc = "mask_pii"
    /\ cleaned_text' = clean_text(text)
    /\ pc' = "analyze"
    /\ UNCHANGED <<input_email_body, text, resolverVars,
                   cvv_entities, masked_entities, given_entities>>

----------------------------------------------------------------------------
(* Character classes and string helpers *)

UpperCase == <<"A","B","C","D","E","F","G","H","I","J","K","L","M",
               "N","O","P","Q","R","S","T","U","V","W","X","Y","Z">>
LowerCase == <<"a","b","c","d","e","f","g","h","i","j","k","l","m",
               "n","o","p","q","r","s","t","u","v","w","x","y","z">>

\* str.lower() on one character
Lower(c) ==
    IF \E i \in 1..26 : UpperCase[i] = c
    THEN LowerCase[CHOOSE i \in 1..26 : UpperCase[i] = c]
    ELSE c

LowerSeq(s) == [i \in 1..Len(s) |-> Lower(s[i])]

\* \d
IsDigit(c) == c \in {"0","1","2","3","4","5","6","7","8","9"}

\* \w
IsWordChar(c) ==
    \/ IsDigit(c)
    \/ c = "_"
    \/ \E i \in 1..26 : UpperCase[i] = c \/ LowerCase[i] = c

\* Python's text[a:b] for 0 <= a; a and b are Python offsets
Slice(t, a, b) == SubSeq(t, a + 1, Min(b, Len(t)))

\* w occurs in s at index i (counted from 1)
OccursAt(s, w, i) ==
    /\ i >= 1
    /\ i + Len(w) - 1 <= Len(s)
    /\ \A k \in 1..Len(w) : s[i + k - 1] = w[k]

\* "w in s"
Contains(s, w) == \E i \in 1..(Len(s) - Len(w) + 1) : OccursAt(s, w, i)

\* number of digits in a row from index i on, counted up to cap
RECURSIVE DigitRun(_, _, _)
DigitRun(t, i, cap) ==
    IF cap = 0 \/ i > Len(t) \/ ~IsDigit(t[i]) THEN 0
    ELSE 1 + DigitRun(t, i + 1, cap - 1)

\* first index from i on that holds no whitespace (\s* or \s+, greedy)
SkipSpaces(t, i) ==
    LeastOf({ j \in i..(Len(t) + 1) :
                 (j > Len(t) \/ ~IsSpace(t[j]))
                 /\ \A k \in i..(j - 1) : IsSpace(t[k]) })

----------------------------------------------------------------------------
(* detect_cvv_from_context *)

\* cvv_keywords; each keyword is the sequence of its words, which the
\* pattern joins by \s+
cvv_keywords ==
    << <<<<"c", "v", "v">>>>,
       <<<<"c", "v", "c">>>>,
       <<<<"s", "e", "c", "u", "r", "i", "t", "y">>, <<"c", "o", "d", "e">>>>,
       <<<<"c", "a", "r", "d">>, <<"v", "e", "r", "i", "f", "i", "c", "a", "t", "i", "o", "n">>>>,
       <<<<"v", "e", "r", "i", "f", "i", "c", "a", "t", "i", "o", "n">>, <<"c", "o", "d", "e">>>>,
       <<<<"c", "a", "r", "d">>, <<"s", "e", "c", "u", "r", "i", "t", "y">>, <<"c", "o", "d", "e">>>>,
       <<<<"t", "h", "r", "e", "e">>, <<"d", "i", "g", "i", "t">>, <<"c", "o", "d", "e">>>>,
       <<<<"f", "o", "u", "r">>, <<"d", "i", "g", "i", "t">>, <<"c", "o", "d", "e">>>> >>

false_positive_keywords ==
    << <<"y", "e", "a", "r">>,
       <<"d", "a", "t", "e">>,
       <<"p", "h", "o", "n", "e">>,
       <<"z", "i", "p">>,
       <<"p", "o", "s", "t", "a", "l">>,
       <<"a", "g", "e">>,
       <<"q", "u", "a", "n", "t", "i", "t", "y">>,
       <<"a", "m", "o", "u", "n", "t">>,
       <<"p", "r", "i", "c", "e">> >>

card_keywords ==
    << <<"c", "a", "r", "d">>,
       <<"c", "r", "e", "d", "i", "t">>,
       <<"d", "e", "b", "i", "t">>,
       <<"p", "a", "y", "m", "e", "n", "t">>,
       <<"e", "x", "p", "i", "r", "e">>,
       <<"e", "x", "p", "i", "r", "y">>,
       <<"v", "a", "l", "i", "d">> >>

KeywordWindow == 20
ProximityWindow == 50
KeywordScore == 90
ProximityScore == 70

\* [\s:,\-]
IsSeparator(c) == IsSpace(c) \/ c \in {":", ",", "-"}

SkipSeparators(t, i) ==
    LeastOf({ j \in i..(Len(t) + 1) :
                 (j > Len(t) \/ ~IsSeparator(t[j]))
                 /\ \A k \in i..(j - 1) : IsSeparator(t[k]) })

\* (?i): word w at index i, case ignored
WordAtIgnoreCase(t, w, i) ==
    /\ i + Len(w) - 1 <= Len(t)
    /\ \A k \in 1..Len(w) : Lower(t[i + k - 1]) = w[k]

\* the keyword's words from the k-th on, at index i: the index behind the
\* keyword, 0 when it does not match
RECURSIVE KeywordEnd(_, _, _, _)
KeywordEnd(t, i, kw, k) ==
    IF ~WordAtIgnoreCase(t, kw[k], i) THEN 0
    ELSE LET j == i + Len(kw[k])
         IN  IF k = Len(kw) THEN j
             ELSE IF j <= Len(t) /\ IsSpace(t[j])
                  THEN KeywordEnd(t, SkipSpaces(t, j), kw, k + 1)
                  ELSE 0

\* rf"(?i){keyword}[\s:,\-]*(\d{{3,4}})" at index i.  mstart, mend are
\* match.start(), match.end(); dstart, dend are match.start(1), match.end(1)
\* (Python offsets).
KeywordMatchAt(t, i, kw) ==
    LET j == KeywordEnd(t, i, kw, 1)
        d == SkipSeparators(t, j)
        n == DigitRun(t, d, 4)
    IN  IF j = 0 \/ n < 3
        THEN [ok |-> FALSE, mstart |-> 0, mend |-> 0, dstart |-> 0, dend |-> 0]
        ELSE [ok |-> TRUE, mstart |-> i - 1, mend |-> d - 1 + n,
              dstart |-> d - 1, dend |-> d - 1 + n]

\* the candidate placed at the start of the whole match instead of the
\* start of its digit group
KeywordCandidateAtMatchStart(t, m) ==
    LET cvv_digits == Slice(t, m["dstart"], m["dend"])
        context == LowerSeq(Slice(t, Max(0, m["mstart"] - KeywordWindow),
                                  Min(Len(t), m["mend"] + KeywordWindow)))
        is_likely_cvv ==
            ~\E f \in 1..Len(false_positive_keywords) :
                Contains(context, false_positive_keywords[f])
    IN  IF Len(cvv_digits) \in {3, 4} /\ is_likely_cvv
        THEN << [entity_type |-> "CVV_NO", start |-> m["mstart"],
                 end |-> m["dend"], entity |-> cvv_digits,
                 score |-> KeywordScore] >>
        ELSE <<>>

\* the candidate of one keyword match, <<>> when a false-positive word is
\* within KeywordWindow characters of the match.  The "context" key of the
\* dictionary is never read and is left out.
KeywordCandidate(t, m) ==
    LET cvv_digits == Slice(t, m["dstart"], m["dend"])
        context_start == Max(0, m["mstart"] - KeywordWindow)
        context_end == Min(Len(t), m["mend"] + KeywordWindow)
        context == LowerSeq(Slice(t, context_start, context_end))
        is_likely_cvv ==
            ~\E f \in 1..Len(false_positive_keywords) :
                Contains(context, false_positive_keywords[f])
    IN  IF Len(cvv_digits) \in {3, 4} /\ is_likely_cvv
        THEN << [entity_type |-> "CVV_NO", start |-> m["dstart"],
                 end |-> m["dend"], entity |-> cvv_digits,
                 score |-> KeywordScore] >>
        ELSE <<>>

\* re.finditer for one keyword, from index i on: the leftmost match is
\* taken and the scan goes on behind it, so matches do not overlap
RECURSIVE KeywordMatchesFrom(_, _, _)
KeywordMatchesFrom(t, i, kw) ==
    LET j == LeastOf({ k \in i..Len(t) : KeywordMatchAt(t, k, kw)["ok"] })
    IN  IF j = 0 THEN <<>>
        ELSE LET m == KeywordMatchAt(t, j, kw)
             IN  KeywordCandidate(t, m) \o KeywordMatchesFrom(t, m["mend"] + 1, kw)

\* "for keyword in cvv_keywords": the candidates of all keywords, in order
RECURSIVE KeywordPassFrom(_, _)
KeywordPassFrom(t, k) ==
    IF k > Len(cvv_keywords) THEN <<>>
    ELSE KeywordMatchesFrom(t, 1, cvv_keywords[k]) \o KeywordPassFrom(t, k + 1)

KeywordPass(t) == KeywordPassFrom(t, 1)

\* \b at index i: exactly one of the characters before and at i is a word
\* character
WordBoundaryAt(t, i) ==
    (i > 1 /\ IsWordChar(t[i - 1])) # (i <= Len(t) /\ IsWordChar(t[i]))

\* r"\b(\d{3,4})\b" at index i: the number of digits matched, 0 when it
\* does not match (four digits are tried before three)
DigitTokenAt(t, i) ==
    IF ~WordBoundaryAt(t, i) THEN 0
    ELSE IF DigitRun(t, i, 4) = 4 /\ WordBoundaryAt(t, i + 4) THEN 4
    ELSE IF DigitRun(t, i, 3) = 3 /\ WordBoundaryAt(t, i + 3) THEN 3
    ELSE 0

\* re.search(rf"\b{keyword}\b", context)
ContainsWord(s, w) ==
    \E i \in 1..(Len(s) - Len(w) + 1) :
        /\ OccursAt(s, w, i)
        /\ WordBoundaryAt(s, i)
        /\ WordBoundaryAt(s, i + Len(w))

\* re.search(r"\d{4}[-/]\d{2}[-/]\d{2,4}", context)
ContainsDate(s) ==
    \E i \in 1..Len(s) :
        /\ DigitRun(s, i, 4) = 4
        /\ i + 4 <= Len(s) /\ s[i + 4] \in {"-", "/"}
        /\ DigitRun(s, i + 5, 2) = 2
        /\ i + 7 <= Len(s) /\ s[i + 7] \in {"-", "/"}
        /\ DigitRun(s, i + 8, 2) = 2

\* re.search(r"\$\d+", context)
ContainsAmount(s) ==
    \E i \in 1..(Len(s) - 1) : s[i] = "$" /\ IsDigit(s[i + 1])

\* re.search(r"\d{4}\s*\d{4}\s*\d{4}\s*\d{4}", context)
ContainsCardNumber(s) ==
    \E i \in 1..Len(s) :
        LET g2 == SkipSpaces(s, i + 4)
            g3 == SkipSpaces(s, g2 + 4)
            g4 == SkipSpaces(s, g3 + 4)
        IN  /\ DigitRun(s, i, 4) = 4
            /\ DigitRun(s, g2, 4) = 4
            /\ DigitRun(s, g3, 4) = 4
            /\ DigitRun(s, g4, 4) = 4

\* the body of "for digit_match in re.finditer(digit_pattern, text)" for
\* the token of n digits at index i: the list with the candidate appended,
\* or unchanged
ProximityOne(t, i, n, found) ==
    LET digit_start == i - 1
        digit_end == i - 1 + n
        digit_text == Slice(t, digit_start, digit_end)
        context_start == Max(0, digit_start - ProximityWindow)
        context_end == Min(Len(t), digit_end + ProximityWindow)
        context == LowerSeq(Slice(t, context_start, context_end))
        has_card_context ==
            \E k \in 1..Len(card_keywords) : ContainsWord(context, card_keywords[k])
        likely_cvv_context ==
            /\ has_card_context
            /\ ~ContainsDate(context)
            /\ ~ContainsAmount(context)
            /\ ~ContainsCardNumber(context)
            /\ Len(digit_text) \in {3, 4}
        is_duplicate ==
            \E x \in 1..Len(found) :
                found[x]["start"] = digit_start /\ found[x]["end"] = digit_end
    IN  IF likely_cvv_context /\ ~is_duplicate
        THEN Append(found, [entity_type |-> "CVV_NO", start |-> digit_start,
                            end |-> digit_end, entity |-> digit_text,
                            score |-> ProximityScore])
        ELSE found

\* re.finditer(digit_pattern, text) from index i on
RECURSIVE ProximityPassFrom(_, _, _)
ProximityPassFrom(t, i, found) ==
    LET j == LeastOf({ k \in i..Len(t) : DigitTokenAt(t, k) > 0 })
    IN  IF j = 0 THEN found
        ELSE LET n == DigitTokenAt(t, j)
             IN  ProximityPassFrom(t, j + n, ProximityOne(t, j, n, found))

ProximityPass(t, found) == ProximityPassFrom(t, 1, found)

\* the whole function
DetectCvv(t) == ProximityPass(t, KeywordPass(t))

\* lines 144-192: the keyword-anchored pass
CvvKeywordPass ==
    /\ pc = "cvv_keywords"
    /\ cvv_entities' = KeywordPass(text)
    /\ pc' = "cvv_proximity"
    /\ UNCHANGED <<textVars, resolverVars, masked_entities, given_entities>>

\* lines 194-240: the proximity pass and the return
CvvProximityPass ==
    /\ pc = "cvv_proximity"
    /\ cvv_entities' = ProximityPass(text, cvv_entities)
    /\ pc' = "cvv_done"
    /\ UNCHANGED <<textVars, resolverVars, masked_entities, given_entities>>

----------------------------------------------------------------------------
(* Specification of the CVV detector on its own: every text made of at     *)
(* most MaxCvvSegs segments of CvvSegments.                                 *)

MaxCvvSegs == 3

CvvSegments ==
    << <<"c", "a", "r", "d", " ">>,
       <<"s", "e", "c", "u", "r", "i", "t", "y", " ", "c", "o", "d", "e", " ">>,
       <<"C", "V", "V", ":", " ">>,
       <<"1", "2", "3", " ">>,
       <<"4", "5", "6", "7">>,
       <<"z", "i", "p", " ">>,
       <<"$", "5", " ">>,
       <<"2", "0", "2", "4", "-", "0", "1", "-", "0", "2", " ">>,
       <<"1", "1", "1", "1", " ", "2", "2", "2", "2", " ", "3", "3", "3", "3", " ", "4", "4", "4", "4", " ">>,
       <<"w", "e", " ", "w", "i", "l", "l", " ", "g", "e", "t", " ", "b", "a", "c", "k", " ", "t", "o", " ", "y", "o", "u", " ", "a", "s", " ", "s", "o", "o", "n", " ", "a", "s", " ", "w", "e", " ", "p", "o", "s", "s", "i", "b", "l", "y", " ", "c", "a", "n", ".", " ">> >>

RECURSIVE Concat(_)
Concat(ss) == IF ss = <<>> THEN <<>> ELSE Head(ss) \o Concat(Tail(ss))

TextsOf(segments, n) ==
    { Concat(ss) : ss \in SeqsUpTo({ segments[k] : k \in 1..Len(segments) }, n) }

InitCvv ==
    /\ pc = "cvv_keywords"
    /\ text \in TextsOf(CvvSegments, MaxCvvSegs)
    /\ input_email_body = <<>>
    /\ cleaned_text = <<>>
    /\ entities = <<>>
    /\ resolved_entities = <<>>
    /\ idx = 0
    /\ cvv_entities = <<>>
    /\ masked_entities = <<>>
    /\ given_entities = <<>>

NextCvv == CvvKeywordPass \/ CvvProximityPass

SpecCvv == InitCvv /\ [][NextCvv]_vars

\* C6: the list the detector returns holds no two candidates with the
\* identical (start, end) span.
C6_NoDuplicateSpans ==
    pc = "cvv_done" =>
        \A i, j \in 1..Len(cvv_entities) :
            (/\ cvv_entities[i]["start"] = cvv_entities[j]["start"]
             /\ cvv_entities[i]["end"] = cvv_entities[j]["end"]) => i = j

----------------------------------------------------------------------------
(* post_process_dates *)

dob_keywords ==
    << <<"b", "o", "r", "n">>,
       <<"b", "i", "r", "t", "h">>,
       <<"d", "o", "b">>,
       <<"d", "a", "t", "e", " ", "o", "f", " ", "b", "i", "r", "t", "h">> >>

expiry_keywords ==
    << <<"e", "x", "p", "i", "r", "y">>,
       <<"e", "x", "p">>,
       <<"e", "x", "p", "i", "r", "e", "s">>,
       <<"v", "a", "l", "i", "d", " ", "u", "n", "t", "i", "l">>,
       <<"v", "a", "l", "i", "d", " ", "t", "i", "l", "l">> >>

DateWindow == 30

ContainsAny(snippet, keywords) ==
    \E k \in 1..Len(keywords) : Contains(snippet, keywords[k])

\* the expiry keywords tested before the DOB keywords
ReclassifiedTypeExpiryFirst(t, entity) ==
    IF entity["entity_type"] \in {"DOB", "EXPIRY_NO"}
    THEN LET snippet == LowerSeq(Slice(t, Max(0, entity["start"] - DateWindow),
                                        Min(Len(t), entity["end"] + DateWindow)))
         IN  IF ContainsAny(snippet, expiry_keywords) THEN "EXPIRY_NO"
             ELSE IF ContainsAny(snippet, dob_keywords) THEN "DOB"
             ELSE entity["entity_type"]
    ELSE entity["entity_type"]

\* the entity_type the loop body leaves in entity
ReclassifiedType(t, entity) ==
    IF entity["entity_type"] \in {"DOB", "EXPIRY_NO"}
    THEN LET start == entity["start"]
             end == entity["end"]
             context_start == Max(0, start - DateWindow)
             context_end == Min(Len(t), end + DateWindow)
             snippet == LowerSeq(Slice(t, context_start, context_end))
         IN  IF ContainsAny(snippet, dob_keywords) THEN "DOB"
             ELSE IF ContainsAny(snippet, expiry_keywords) THEN "EXPIRY_NO"
             ELSE entity["entity_type"]
    ELSE entity["entity_type"]

\* one iteration of "for entity in entities"
PostProcessOne(t, entity) ==
    [entity EXCEPT !["entity_type"] = ReclassifiedType(t, entity)]

\* the whole function
PostProcessDates(t, ents) == [i \in 1..Len(ents) |-> PostProcessOne(t, ents[i])]

DatesStep ==
    /\ pc = "dates"
    /\ idx < Len(entities)
    /\ entities' = [entities EXCEPT ![idx + 1] = PostProcessOne(text, @)]
    /\ idx' = idx + 1
    /\ UNCHANGED <<pc, textVars, resolved_entities, cvv_entities,
                   masked_entities, given_entities>>

DatesReturn ==
    /\ pc = "dates"
    /\ idx = Len(entities)
    /\ pc' = "dates_done"
    /\ UNCHANGED <<textVars, resolverVars, cvv_entities, masked_entities,
                   given_entities>>

----------------------------------------------------------------------------
(* Specification of the date reclassifier on its own: texts of at most     *)
(* MaxDateSegs segments of DateSegments, and at most MaxDateCands          *)
(* candidates, each on the marked span of one of the text's segments.      *)

MaxDateSegs == 2
MaxDateCands == 2

\* chars: the segment; from, to: the span of interest inside it
DateSegments ==
    << [chars |-> <<"b", "o", "r", "n", " ", "0", "1", "-", "0", "2", "-", "1", "9", "9", "0", " ">>,
        from |-> 5, to |-> 15, types |-> {"DOB", "EXPIRY_NO"}],
       [chars |-> <<"e", "x", "p", "i", "r", "e", "s", " ", "0", "1", "/", "2", "5", " ">>,
        from |-> 8, to |-> 13, types |-> {"DOB", "EXPIRY_NO"}],
       [chars |-> <<"d", "u", "e", " ", "0", "1", "/", "0", "2", "/", "2", "5", " ">>,
        from |-> 4, to |-> 12, types |-> {"DOB", "EXPIRY_NO"}],
       [chars |-> <<"d", "a", "t", "e", " ", "o", "f", " ", "b", "i", "r", "t", "h", " ", "a", "s", " ", "s", "h", "o", "w", "n", " ", "i", "n", " ", "t", "h", "e", " ", "p", "a", "s", "s", "p", "o", "r", "t", ":", " ">>,
        from |-> 0, to |-> 13, types |-> {"DOB", "EXPIRY_NO"}],
       [chars |-> <<"J", "o", "h", "n", " ">>,
        from |-> 0, to |-> 4, types |-> {"PERSON"}] >>

RecognizerScore(type) ==
    CASE type = "DOB" -> 90
      [] type = "EXPIRY_NO" -> 80
      [] OTHER -> 85

SegChars(ss) == Concat([i \in 1..Len(ss) |-> DateSegments[ss[i]]["chars"]])

\* the offset at which the k-th segment of ss starts in SegChars(ss)
SegOffset(ss, k) == Len(SegChars(SubSeq(ss, 1, k - 1)))

DateCandidate(ss, k, type) ==
    LET t == SegChars(ss)
        from == SegOffset(ss, k) + DateSegments[ss[k]]["from"]
        to == SegOffset(ss, k) + DateSegments[ss[k]]["to"]
    IN  [entity_type |-> type, start |-> from, end |-> to,
         entity |-> Slice(t, from, to), score |-> RecognizerScore(type)]

\* <<k, type>>: a candidate of that type on the k-th segment of ss
DatePicks(ss) ==
    UNION { {k} \X DateSegments[ss[k]]["types"] : k \in 1..Len(ss) }

InitDates ==
    /\ pc = "dates"
    /\ \E ss \in SeqsUpTo(1..Len(DateSegments), MaxDateSegs) :
          /\ text = SegChars(ss)
          /\ \E picks \in SeqsUpTo(DatePicks(ss), MaxDateCands) :
                entities = [i \in 1..Len(picks) |->
                               DateCandidate(ss, picks[i][1], picks[i][2])]
    /\ given_entities = entities
    /\ idx = 0
    /\ input_email_body = <<>>
    /\ cleaned_text = <<>>
    /\ resolved_entities = <<>>
    /\ cvv_entities = <<>>
    /\ masked_entities = <<>>

NextDates == DatesStep \/ DatesReturn

SpecDates == InitDates /\ [][NextDates]_vars

\* the lower-cased window of DateWindow characters either side of a span
C9_Window(e) ==
    LowerSeq(Slice(text, Max(0, e["start"] - DateWindow),
                   Min(Len(text), e["end"] + DateWindow)))

C9_Expected(e) ==
    IF e["entity_type"] \notin {"DOB", "EXPIRY_NO"} THEN e["entity_type"]
    ELSE IF \E k \in 1..Len(dob_keywords) : Contains(C9_Window(e), dob_keywords[k])
         THEN "DOB"
    ELSE IF \E k \in 1..Len(expiry_keywords) : Contains(C9_Window(e), expiry_keywords[k])
         THEN "EXPIRY_NO"
    ELSE e["entity_type"]

\* C9: the reclassifier changes nothing but entity_type, and only of
\* candidates typed DOB or EXPIRY_NO: DOB when a DOB keyword is in the
\* window (also beside an expiry keyword), else EXPIRY_NO when an expiry
\* keyword is, else the given type; number, order, spans, scores and the
\* other candidates stay as given.
C9_OnlyDateTypesRelabelled ==
    pc \in {"dates", "dates_done"} =>
        /\ Len(entities) = Len(given_entities)
        /\ \A i \in 1..Len(entities) :
              IF i <= idx
              THEN entities[i] =
                     [given_entities[i] EXCEPT
                         !["entity_type"] = C9_Expected(given_entities[i])]
              ELSE entities[i] = given_entities[i]

\* a candidate given as EXPIRY_NO with both kinds of keyword in its window
\* came out as DOB; a DOB candidate with an expiry keyword in its window
\* and the text's DOB keyword out of it came out as EXPIRY_NO
C9_Witness ==
    /\ pc = "dates_done"
    /\ Len(entities) = 2
    /\ given_entities[1]["entity_type"] = "EXPIRY_NO"
    /\ entities[1]["entity_type"] = "DOB"
    /\ \E k \in 1..Len(expiry_keywords) :
           Contains(C9_Window(entities[1]), expiry_keywords[k])
    /\ given_entities[2]["entity_type"] = "DOB"
    /\ entities[2]["entity_type"] = "EXPIRY_NO"
    /\ \E k \in 1..Len(dob_keywords) : Contains(LowerSeq(text), dob_keywords[k])

----------------------------------------------------------------------------
(* mask_pii *)

\* entity_mapping.get(entity_type, entity_type.lower())
Classification(entity_type) ==
    CASE entity_type = "PERSON" -> "full_name"
      [] entity_type = "EMAIL_ADDRESS" -> "email"
      [] entity_type = "PHONE_NUMBER" -> "phone_number"
      [] entity_type = "DOB" -> "dob"
      [] entity_type = "AADHAR_NUM" -> "aadhar_num"
      [] entity_type = "CREDIT_DEBIT_NO" -> "credit_debit_no"
      [] entity_type = "CVV_NO" -> "cvv_no"
      [] entity_type = "EXPIRY_NO" -> "expiry_no"
      [] OTHER -> entity_type  \* lower-cased; no other type occurs here

\* the dictionary mask_pii makes of one analyzer result
AnalyzerEntity(t, result) ==
    [entity_type |-> result["entity_type"],
     start |-> result["start"],
     end |-> result["end"],
     entity |-> Slice(t, result["start"], result["end"]),
     score |-> result["score"]]

\* the record of one resolved entity
MaskedRecord(entity) ==
    [position |-> <<entity["start"], entity["end"]>>,
     classification |-> Classification(entity["entity_type"]),
     entity |-> entity["entity"]]

\* masked_entities.sort(key=position[0]), stable
RECURSIVE InsertByPosition(_, _)
InsertByPosition(r, s) ==
    IF s = <<>> THEN <<r>>
    ELSE IF s[Len(s)]["position"][1] <= r["position"][1] THEN Append(s, r)
    ELSE Append(InsertByPosition(r, SubSeq(s, 1, Len(s) - 1)), s[Len(s)])

RECURSIVE SortByPositionFrom(_, _, _)
SortByPositionFrom(s, i, acc) ==
    IF i > Len(s) THEN acc
    ELSE SortByPositionFrom(s, i + 1, InsertByPosition(s[i], acc))

\* lines 303-314
MaskedRecords(ents) ==
    SortByPositionFrom([i \in 1..Len(ents) |-> MaskedRecord(ents[i])], 1, <<>>)

\* The analyzer is an external engine: any list of at most n results on
\* the spans of spans, each a PERSON with a score of scores.
AnalyzerScores == {85}

AnalyzerResults(spans, scores, n) ==
    SeqsUpTo({ [entity_type |-> "PERSON", start |-> sp[1], end |-> sp[2],
                score |-> sc] : sp \in spans, sc \in scores }, n)

\* the spans of the whitespace-delimited tokens of t
TokenSpans(t) ==
    { <<a, b>> \in (0..Len(t)) \X (0..Len(t)) :
        /\ a < b
        /\ \A k \in (a + 1)..b : ~IsSpace(t[k])
        /\ (a = 0 \/ IsSpace(t[a]))
        /\ (b = Len(t) \/ IsSpace(t[b + 1])) }

MaxAnalyzer == 1

\* lines 254-291: analyzer.analyze and the conversion of its results
Analyze ==
    /\ pc = "analyze"
    /\ \E results \in AnalyzerResults(TokenSpans(cleaned_text), AnalyzerScores,
                                     MaxAnalyzer) :
          entities' = [i \in 1..Len(results) |->
                          AnalyzerEntity(cleaned_text, results[i])]
    /\ pc' = "detect_cvv"
    /\ UNCHANGED <<textVars, resolved_entities, idx, cvv_entities,
                   masked_entities, given_entities>>

\* lines 293-295
ExtendWithCvv ==
    /\ pc = "detect_cvv"
    /\ cvv_entities' = DetectCvv(cleaned_text)
    /\ entities' = entities \o DetectCvv(cleaned_text)
    /\ pc' = "post_process"
    /\ UNCHANGED <<textVars, resolved_entities, idx, masked_entities,
                   given_entities>>

\* lines 297-298
PostProcess ==
    /\ pc = "post_process"
    /\ entities' = PostProcessDates(cleaned_text, entities)
    /\ pc' = "resolve"
    /\ UNCHANGED <<textVars, resolved_entities, idx, cvv_entities,
                   masked_entities, given_entities>>

\* lines 300-342: the resolver has returned; the records are built and
\* sorted, and the resolved spans are handed to the anonymizer
BuildRecords ==
    /\ pc = "resolved"
    /\ masked_entities' = MaskedRecords(resolved_entities)
    /\ pc' = "anonymize"
    /\ UNCHANGED <<textVars, resolverVars, cvv_entities, given_entities>>

----------------------------------------------------------------------------
(* Specification of mask_pii up to the call of the anonymizer, entered     *)
(* through the API (which normalizes the body first) or directly, on       *)
(* every text of at most MaxPipeSegs segments of PipeSegments.              *)

MaxPipeSegs == 3

PipeSegments ==
    << <<"<", "b", ">">>,
       <<"c", "v", "v", ":", " ", "1", "2", "3">>,
       <<" ">>,
       <<"c", "a", "r", "d">>,
       <<"4", "5", "6", "7">> >>

InitPipe ==
    /\ \E raw \in TextsOf(PipeSegments, MaxPipeSegs) :
          \/ /\ pc = "api"
             /\ raw # <<>>
             /\ input_email_body = raw
             /\ text = <<>>
          \/ /\ pc = "mask_pii"
             /\ input_email_body = <<>>
             /\ text = raw
    /\ cleaned_text = <<>>
    /\ entities = <<>>
    /\ resolved_entities = <<>>
    /\ idx = 0
    /\ cvv_entities = <<>>
    /\ masked_entities = <<>>
    /\ given_entities = <<>>

NextPipe ==
    \/ ApiClean
    \/ MaskClean
    \/ Analyze
    \/ ExtendWithCvv
    \/ PostProcess
    \/ ResolveBegin
    \/ ResolveStep
    \/ ResolveReturn
    \/ BuildRecords

SpecPipe == InitPipe /\ [][NextPipe]_vars

\* the normalization of the text the caller supplied: the request body on
\* the API's path, the argument of mask_pii on a direct call
C2_NormalizedText ==
    IF input_email_body # <<>> THEN clean_text(input_email_body)
    ELSE clean_text(text)

\* C2: every masked-entity record holds the substring of the normalized
\* text at its position, whether it comes from the analyzer or from the
\* CVV detector, and whether or not the caller normalized the text before.
C2_SubstringFidelity ==
    pc = "anonymize" =>
        \A i \in 1..Len(masked_entities) :
            masked_entities[i]["entity"] =
                Slice(C2_NormalizedText, masked_entities[i]["position"][1],
                      masked_entities[i]["position"][2])

\* the API's path on a body with markup, with a record of the analyzer and,
\* behind it, a record of the CVV detector
C2_Witness ==
    /\ pc = "anonymize"
    /\ input_email_body # <<>>
    /\ \E k \in 1..Len(input_email_body) : input_email_body[k] = "<"
    /\ \E i, j \in 1..Len(masked_entities) :
          /\ masked_entities[i]["classification"] = "full_name"
          /\ masked_entities[j]["classification"] = "cvv_no"
          /\ masked_entities[j]["position"][1] > 0

----------------------------------------------------------------------------
(* Specification of mask_pii from the resolver on, when the candidates it  *)
(* has collected need not satisfy the span invariant: at most MaxRawCands   *)
(* candidates with any start and end in 0..MaxPos, on the normalization of  *)
(* one segment of PipeSegments.                                             *)

MaxRawCands == 2

\* 0 <= start < end <= len(text)
SpanInText(start, end, t) == 0 <= start /\ start < end /\ end <= Len(t)

InitRaw ==
    /\ pc = "resolve"
    /\ \E raw \in TextsOf(PipeSegments, 1) :
          /\ text = raw
          /\ cleaned_text = clean_text(raw)
          /\ \E results \in AnalyzerResults((0..MaxPos) \X (0..MaxPos), Scores,
                                            MaxRawCands) :
                entities = [i \in 1..Len(results) |->
                               AnalyzerEntity(clean_text(raw), results[i])]
    /\ input_email_body = <<>>
    /\ resolved_entities = <<>>
    /\ idx = 0
    /\ cvv_entities = <<>>
    /\ masked_entities = <<>>
    /\ given_entities = <<>>

NextRaw == ResolveBegin \/ ResolveStep \/ ResolveReturn \/ BuildRecords

SpecRaw == InitRaw /\ [][NextRaw]_vars

\* C5: a candidate whose span violates the span invariant (start >= end,
\* or end > len(text)) makes the pipeline fail: the resolver never returns
\* a result that holds such a span, and no record is built of one.
C5_InvalidSpanFailsFast ==
    /\ pc \in {"resolved", "anonymize"} =>
          \A i \in 1..Len(resolved_entities) :
              SpanInText(resolved_entities[i]["start"],
                         resolved_entities[i]["end"], cleaned_text)
    /\ pc = "anonymize" =>
          \A i \in 1..Len(masked_entities) :
              SpanInText(masked_entities[i]["position"][1],
                         masked_entities[i]["position"][2], cleaned_text)

----------------------------------------------------------------------------
(* Specification of normalization: the API's path over every string of at  *)
(* most MaxNormLen characters of NormAlphabet.                              *)

MaxNormLen == 6
NormAlphabet == {"<", ">", " ", "\n", "a"}

InitNorm ==
    /\ pc = "api"
    /\ input_email_body \in SeqsUpTo(NormAlphabet, MaxNormLen)
    /\ text = <<>>
    /\ cleaned_text = <<>>
    /\ entities = <<>>
    /\ resolved_entities = <<>>
    /\ idx = 0
    /\ cvv_entities = <<>>
    /\ masked_entities = <<>>
    /\ given_entities = <<>>

NextNorm == ApiClean \/ MaskClean

SpecNorm == InitNorm /\ [][NextNorm]_vars

\* C4: normalization is idempotent: what mask_pii computes from the API's
\* already normalized body is that body itself.
C4_Idempotent == pc = "analyze" => cleaned_text = text

\* a body with an unbalanced "<" left after a tag was removed and
\* whitespace collapsed has been normalized twice
C4_Witness ==
    /\ pc = "analyze"
    /\ Len(text) + 3 <= Len(input_email_body)
    /\ \E i \in 1..Len(text) : text[i] = "<"
    /\ \E i \in 1..Len(text) : text[i] = " "

=============================================================================
